---- MODULE Spec2Model ----
(***************************************************************************)
(* State-machine model of the SmartRiceAgri front end's bid access layer   *)
(* (BidService over the shared axios instance) and of the pagination       *)
(* buttons of the AllocationList component.                                *)
(*                                                                         *)
(* JavaScript objects are functions from the names of the properties they  *)
(* carry to values; an absent property is a name outside DOMAIN.  Instants *)
(* are minutes since the epoch (UTC); tz is the browser's time zone.       *)
(*                                                                         *)
(* BidService keeps no state between invocations, so the model follows one *)
(* invocation at a time through its steps, while others counts the other   *)
(* invocations whose HTTP calls are in flight at the same moment.          *)
(***************************************************************************)
EXTENDS Integers, Sequences, FiniteSets, TLC

VARIABLES
    tz,           \* the browser's time zone: its standard and daylight UTC
                  \* offsets (minutes) and the rule of its yearly changes
    now,          \* the reading of the clock
    others,       \* other invocations awaiting their HTTP responses
    pc,           \* position of the invocation that is followed
    op,           \* the operation invoked
    args,         \* the invocation's arguments (dropped when it completes)
    inflight,     \* the HTTP request awaiting its response, if any
    sent,         \* number of HTTP requests the invocation has issued
    response,     \* the data of the response the interceptor passed on, if any
    failure,      \* the error the HTTP call was rejected with, if any
    result,       \* the value the invocation returned, if any
    thrown,       \* the errors the invocation signalled to its caller
    console,      \* console.error lines written for the invocation
    currentPage,  \* AllocationList's currentPage prop
    pageArg       \* the argument of the last onPageChange call, if any

vars == <<tz, now, others, pc, op, args, inflight, sent, response, failure, result,
          thrown, console, currentPage, pageArg>>

-----------------------------------------------------------------------------
(* Bounds of the model *)

MaxBids == 2      \* records in a list response
MaxOthers == 1    \* other invocations in flight at the same moment
MaxOffers == 2    \* offers of one record
MaxPage == 120    \* pages the Next button is followed to

-----------------------------------------------------------------------------
(* JavaScript values *)

Empty == [k \in {} |-> ""]

Has(o, k) == k \in DOMAIN o

\* !o[k] for a string-valued property: absent (undefined) or "" is falsy
TruthyStr(o, k) == Has(o, k) /\ o[k] # ""

\* !o[k] for a number-valued property: absent (undefined) or 0 is falsy
TruthyNum(o, k) == Has(o, k) /\ o[k] # 0

\* { ...base, ...over }
Spread(base, over) ==
    [k \in DOMAIN base \cup DOMAIN over |->
        IF k \in DOMAIN over THEN over[k] ELSE base[k]]

\* the object without the property k (rest destructuring)
Without(o, k) == [j \in DOMAIN o \ {k} |-> o[j]]

MinutesPerDay == 24 * 60

\* the hour that createBid sets the harvest date to
NoonHour == 12

InvalidDate == [valid |-> FALSE, t |-> 0]

\* the day number (days since the epoch) of a calendar date
DaysFromCivil(y, m, d) ==
    LET yy == IF m <= 2 THEN y - 1 ELSE y
        era == yy \div 400
        yoe == yy - era * 400
        doy == (153 * (IF m > 2 THEN m - 3 ELSE m + 9) + 2) \div 5 + d - 1
        doe == yoe * 365 + yoe \div 4 - yoe \div 100 + doy
    IN  era * 146097 + doe - 719468

\* the calendar year of a day number
YearOf(day) ==
    LET z == day + 719468
        era == z \div 146097
        doe == z - era * 146097
        yoe == (doe - doe \div 1460 + doe \div 36524 - doe \div 146096) \div 365
        doy == doe - (365 * yoe + yoe \div 4 - yoe \div 100)
        mp == (5 * doy + 2) \div 153
    IN  yoe + era * 400 + (IF mp < 10 THEN 0 ELSE 1)

\* the day of the week of a day number, 0 for Sunday
Weekday(day) == (day + 4) % 7

\* the day number of the n-th Sunday of a month (n = 5: its last Sunday)
SundayOf(y, m, n) ==
    IF n = 5
    THEN LET last == (IF m = 12 THEN DaysFromCivil(y + 1, 1, 1)
                      ELSE DaysFromCivil(y, m + 1, 1)) - 1
         IN  last - Weekday(last)
    ELSE LET first == DaysFromCivil(y, m, 1)
         IN  first + ((7 - Weekday(first)) % 7) + 7 * (n - 1)

\* the instant of year y at which the zone's daylight time starts: a local
\* standard time on a Sunday
StartOfDaylight(y) ==
    SundayOf(y, tz.startMonth, tz.startSunday) * MinutesPerDay
        + tz.startMinute - tz.standard

\* the instant of year y at which the zone's daylight time ends: a local
\* daylight time on a Sunday
EndOfDaylight(y) ==
    SundayOf(y, tz.endMonth, tz.endSunday) * MinutesPerDay
        + tz.endMinute - tz.daylight

\* 2008-01-01T00:00Z: the zones' rules are those in force from then on
RulesSince == 13879 * MinutesPerDay

\* the zone's UTC offset at an instant (of 2008 or later)
OffsetAt(t) ==
    CASE t >= RulesSince ->
        IF tz.daylight = tz.standard THEN tz.standard
        ELSE LET y == YearOf(t \div MinutesPerDay)
                 start == StartOfDaylight(y)
                 end == EndOfDaylight(y)
             IN  IF start < end
                 THEN IF start <= t /\ t < end THEN tz.daylight ELSE tz.standard
                 ELSE IF t >= start \/ t < end THEN tz.daylight ELSE tz.standard

\* the local wall-clock time of an instant
LocalOf(t) == t + OffsetAt(t)

\* the instant of a local wall-clock time; of a time that the end of
\* daylight time repeats, the earlier instant; a time that the start of
\* daylight time skips is read with the offset before the change
UTCOf(local) ==
    IF OffsetAt(local - tz.daylight) = tz.daylight THEN local - tz.daylight
    ELSE local - tz.standard

\* new Date(v): a date-only literal is UTC midnight, a date-time literal is
\* local time, anything else (undefined included) is an Invalid Date
NewDate(o, k) ==
    IF ~Has(o, k) THEN InvalidDate
    ELSE IF o[k].form = "date"
         THEN [valid |-> TRUE, t |-> o[k].day * MinutesPerDay]
    ELSE IF o[k].form = "datetime"
         THEN [valid |-> TRUE, t |-> UTCOf(o[k].day * MinutesPerDay + o[k].minute)]
    ELSE InvalidDate

\* d.setHours(12, 0, 0, 0): local noon of d's local day
SetHoursNoon(d) ==
    IF ~d.valid THEN d
    ELSE [valid |-> TRUE,
          t |-> UTCOf((LocalOf(d.t) \div MinutesPerDay) * MinutesPerDay
                        + NoonHour * 60)]

\* d.toISOString(): the UTC day and minute of the instant
ToISOString(d) == [day |-> d.t \div MinutesPerDay, minute |-> d.t % MinutesPerDay]

\* d.toLocaleDateString(): the local day of the instant
ToLocaleDateString(d) ==
    IF d.valid THEN [localDay |-> LocalOf(d.t) \div MinutesPerDay]
    ELSE [text |-> "Invalid Date"]

\* the value of a character as a digit (36 for a character that is none)
DigitValue(c) ==
    CASE c = "0" -> 0 [] c = "1" -> 1 [] c = "2" -> 2 [] c = "3" -> 3
      [] c = "4" -> 4 [] c = "5" -> 5 [] c = "6" -> 6 [] c = "7" -> 7
      [] c = "8" -> 8 [] c = "9" -> 9
      [] c \in {"a", "A"} -> 10 [] c \in {"b", "B"} -> 11
      [] c \in {"c", "C"} -> 12 [] c \in {"d", "D"} -> 13
      [] c \in {"e", "E"} -> 14 [] c \in {"f", "F"} -> 15
      [] OTHER -> 36

IsDigit(c, radix) == DigitValue(c) < radix

RECURSIVE ParseDigits(_, _, _, _, _)
\* the longest run of digits of the radix from position i on
ParseDigits(s, i, seen, acc, radix) ==
    IF i > Len(s) \/ ~IsDigit(s[i], radix) THEN [nan |-> seen = 0, val |-> acc]
    ELSE ParseDigits(s, i + 1, seen + 1, acc * radix + DigitValue(s[i]), radix)

\* the characters parseInt skips before the number: white space and line
\* terminators; a character that is not printable ASCII is written as its
\* code point
WhiteSpace ==
    {" ", "\t", "\n", "\r", "\f", "U+000B", "U+00A0", "U+1680", "U+2000",
     "U+2001", "U+2002", "U+2003", "U+2004", "U+2005", "U+2006", "U+2007",
     "U+2008", "U+2009", "U+200A", "U+2028", "U+2029", "U+202F", "U+205F",
     "U+3000", "U+FEFF"}

RECURSIVE SkipWhiteSpace(_)
SkipWhiteSpace(s) ==
    IF Len(s) > 0 /\ s[1] \in WhiteSpace THEN SkipWhiteSpace(Tail(s)) ELSE s

\* parseInt(s) of a string given as its sequence of characters: leading
\* white space, a sign, a 0x or 0X prefix (radix 16), then digits
ParseInt(s) ==
    LET trimmed == SkipWhiteSpace(s)
        signed == Len(trimmed) > 0 /\ trimmed[1] \in {"-", "+"}
        unsigned == IF signed THEN Tail(trimmed) ELSE trimmed
        hex == Len(unsigned) >= 2 /\ unsigned[1] = "0" /\ unsigned[2] \in {"x", "X"}
        p == IF hex THEN ParseDigits(unsigned, 3, 0, 0, 16)
             ELSE ParseDigits(unsigned, 1, 0, 0, 10)
    IN  [nan |-> p.nan,
         val |-> IF signed /\ trimmed[1] = "-" THEN 0 - p.val ELSE p.val]

\* a setDate that adds the days instead of subtracting them
SetDateForward(d, days) ==
    IF ~d.valid \/ days.nan THEN InvalidDate
    ELSE [valid |-> TRUE, t |-> UTCOf(LocalOf(d.t) + days.val * MinutesPerDay)]

\* d.setDate(d.getDate() - days): the local wall-clock time of d on the
\* local date that is days days earlier
SetDateBack(d, days) ==
    IF ~d.valid \/ days.nan THEN InvalidDate
    ELSE [valid |-> TRUE, t |-> UTCOf(LocalOf(d.t) - days.val * MinutesPerDay)]

RECURSIVE Join(_, _)
\* xs.join(sep)
Join(xs, sep) ==
    IF Len(xs) = 0 THEN ""
    ELSE IF Len(xs) = 1 THEN xs[1]
    ELSE xs[1] \o sep \o Join(Tail(xs), sep)

\* xs.map(f)
Map(xs, F(_)) == [i \in 1..Len(xs) |-> F(xs[i])]

-----------------------------------------------------------------------------
(* Errors *)

\* new Error(message)
NewError(message) == [message |-> message]

\* error.response?.status (0 stands for undefined: it equals no status)
StatusOf(error) ==
    IF Has(error, "response") /\ Has(error.response, "status")
    THEN error.response.status ELSE 0

\* error.response?.data?.message ("" stands for undefined: both are falsy)
DataMessageOf(error) ==
    IF Has(error, "response") /\ Has(error.response, "data")
       /\ Has(error.response.data, "message")
    THEN error.response.data.message ELSE ""

\* error.code ("" stands for undefined: it equals no code)
CodeOf(error) == IF Has(error, "code") THEN error.code ELSE ""

\* a handleError that looks at the backend message last
HandleErrorMessageLast(error) ==
    IF CodeOf(error) = "ERR_NETWORK"
    THEN NewError("Cannot connect to server. Please check your connection.")
    ELSE IF CodeOf(error) = "ECONNABORTED"
    THEN NewError("Request timeout - please try again.")
    ELSE IF StatusOf(error) = 400
    THEN NewError("Invalid request. Please check your input.")
    ELSE IF StatusOf(error) = 401
    THEN NewError("Please log in to continue.")
    ELSE IF StatusOf(error) = 403
    THEN NewError("You do not have permission to perform this action.")
    ELSE IF StatusOf(error) = 404
    THEN NewError("The requested resource was not found.")
    ELSE IF StatusOf(error) = 409
    THEN NewError("This operation conflicts with an existing resource.")
    ELSE IF StatusOf(error) >= 500
    THEN NewError("Server error. Please try again later.")
    ELSE IF DataMessageOf(error) # ""
    THEN NewError(DataMessageOf(error))
    ELSE NewError(IF TruthyStr(error, "message") THEN error.message
                  ELSE "An unexpected error occurred.")

\* a handleError whose 409 branch returns the message of the 404 branch
HandleErrorConflictAsNotFound(error) ==
    IF DataMessageOf(error) # ""
    THEN NewError(DataMessageOf(error))
    ELSE IF CodeOf(error) = "ERR_NETWORK"
    THEN NewError("Cannot connect to server. Please check your connection.")
    ELSE IF CodeOf(error) = "ECONNABORTED"
    THEN NewError("Request timeout - please try again.")
    ELSE IF StatusOf(error) = 400
    THEN NewError("Invalid request. Please check your input.")
    ELSE IF StatusOf(error) = 401
    THEN NewError("Please log in to continue.")
    ELSE IF StatusOf(error) = 403
    THEN NewError("You do not have permission to perform this action.")
    ELSE IF StatusOf(error) = 404
    THEN NewError("The requested resource was not found.")
    ELSE IF StatusOf(error) = 409
    THEN NewError("The requested resource was not found.")
    ELSE IF StatusOf(error) >= 500
    THEN NewError("Server error. Please try again later.")
    ELSE NewError(IF TruthyStr(error, "message") THEN error.message
                  ELSE "An unexpected error occurred.")

\* handleError: the first branch that applies decides the message
HandleError(error) ==
    IF DataMessageOf(error) # ""
    THEN NewError(DataMessageOf(error))
    ELSE IF CodeOf(error) = "ERR_NETWORK"
    THEN NewError("Cannot connect to server. Please check your connection.")
    ELSE IF CodeOf(error) = "ECONNABORTED"
    THEN NewError("Request timeout - please try again.")
    ELSE IF StatusOf(error) = 400
    THEN NewError("Invalid request. Please check your input.")
    ELSE IF StatusOf(error) = 401
    THEN NewError("Please log in to continue.")
    ELSE IF StatusOf(error) = 403
    THEN NewError("You do not have permission to perform this action.")
    ELSE IF StatusOf(error) = 404
    THEN NewError("The requested resource was not found.")
    ELSE IF StatusOf(error) = 409
    THEN NewError("This operation conflicts with an existing resource.")
    ELSE IF StatusOf(error) >= 500
    THEN NewError("Server error. Please try again later.")
    ELSE NewError(IF TruthyStr(error, "message") THEN error.message
                  ELSE "An unexpected error occurred.")

\* an acceptBidOffer catch block without the status-500 branch
CatchNoRemap(o, error) == HandleError(error)

\* the catch block of operation o: acceptBidOffer remaps status 500 itself,
\* every other operation (and every other failure) goes through handleError
Catch(o, error) ==
    IF o = "acceptBidOffer" /\ StatusOf(error) = 500
    THEN NewError("Server error while processing the offer. Please try again.")
    ELSE HandleError(error)

\* console.error lines of the catch block of operation o (handleError logs
\* "API Error:" whenever it is called)
CatchLog(o, error) ==
    IF o = "acceptBidOffer" /\ StatusOf(error) = 500 THEN <<>>
    ELSE IF o = "getBuyerWinningBids"
    THEN <<"Error in getBuyerWinningBids:", "API Error:">>
    ELSE <<"API Error:">>

\* the response interceptor's rejection handler: the error goes on unchanged
OnRejected(error) == error

\* the line the response interceptor logs for a rejected call (the first
\* argument of its console.error)
InterceptorLog(error) ==
    IF Has(error, "response")
    THEN IF ~Has(error.response, "status") THEN <<"Error: undefined">>
         ELSE IF error.response.status = 500 THEN <<"Server Error:">>
         ELSE IF error.response.status = 404 THEN <<"API Not Found:">>
         ELSE <<"Error: " \o ToString(error.response.status)>>
    ELSE IF CodeOf(error) = "ERR_NETWORK"
    THEN <<"Network Error: Cannot connect to backend server">>
    ELSE <<>>

-----------------------------------------------------------------------------
(* Inputs: what callers pass and what the backend and the network answer *)

\* Asia/Colombo (no daylight time), Pacific/Auckland (daylight time from
\* the last Sunday of September, 02:00 standard time, to the first Sunday
\* of April, 03:00 daylight time) and America/Chicago (from the second
\* Sunday of March, 02:00 standard time, to the first Sunday of November,
\* 02:00 daylight time)
TimeZones ==
    { [name |-> "Asia/Colombo", standard |-> 330, daylight |-> 330,
       startMonth |-> 1, startSunday |-> 1, startMinute |-> 0,
       endMonth |-> 1, endSunday |-> 1, endMinute |-> 0],
      [name |-> "Pacific/Auckland", standard |-> 720, daylight |-> 780,
       startMonth |-> 9, startSunday |-> 5, startMinute |-> 120,
       endMonth |-> 4, endSunday |-> 1, endMinute |-> 180],
      [name |-> "America/Chicago", standard |-> -360, daylight |-> -300,
       startMonth |-> 3, startSunday |-> 2, startMinute |-> 120,
       endMonth |-> 11, endSunday |-> 1, endMinute |-> 120] }

\* 2024-10-05T13:30Z (a week after Auckland's clocks went forward) and
\* 2024-11-10T07:30Z (a week after Chicago's clocks went back)
Clock == {20001 * MinutesPerDay + 810, 20037 * MinutesPerDay + 450}

\* all objects that carry a subset of the properties of o
SubObjects(o) == {[k \in D |-> o[k]] : D \in SUBSET DOMAIN o}

Nics == {"", "N1"}
BidIds == {"", "7"}
Amounts == {0, 250}

HarvestDates ==
    { [form |-> "date", day |-> 20100, minute |-> 0],
      [form |-> "datetime", day |-> 19995, minute |-> 150],
      [form |-> "garbage", day |-> 0, minute |-> 0] }

BidCreateRequests ==
    { Spread([minimumPrice |-> 100], r) :
        r \in UNION { SubObjects([farmerNic |-> n, harvestDate |-> h, status |-> "SOLD"]) :
                        n \in Nics, h \in HarvestDates } }

DateRanges ==
    { <<>>, <<"a", "l", "l">>, <<"7">>, <<"3", "0">>, <<" ", "7">>,
      <<"U+000B", "7">>, <<"0", "x", "1", "F">> }

ListFilters ==
    UNION { SubObjects([signal |-> "signal", status |-> st, dateRange |-> dr,
                        searchTerm |-> q]) :
              st \in {"", "all", "ACTIVE"}, dr \in DateRanges, q \in {"", "all"} }

ActiveFilters ==
    UNION { SubObjects([riceVariety |-> v, location |-> l]) :
              v \in {"", "ALL", "Samba"}, l \in {"", "Kandy"} }

ArgsOf(o) ==
    CASE o = "createBid" -> {[bidCreateRequest |-> r] : r \in BidCreateRequests}
      [] o = "getAllBids" -> ListFilters
      [] o = "getFilteredBids" -> ActiveFilters
      [] o = "getFarmerBids" -> UNION {SubObjects([farmerNic |-> n]) : n \in Nics}
      [] o = "getBuyerWinningBids" -> UNION {SubObjects([buyerNic |-> n]) : n \in Nics}
      [] o \in {"getBidDetails", "cancelBid"} ->
            UNION {SubObjects([bidId |-> b]) : b \in BidIds}
      [] o = "placeBid" ->
            UNION {SubObjects([bidId |-> b, buyerNic |-> n, bidAmount |-> a]) :
                     b \in BidIds, n \in Nics, a \in Amounts}
      [] o = "acceptBidOffer" ->
            UNION {SubObjects([bidId |-> b, buyerNic |-> n]) : b \in BidIds, n \in Nics}
      [] o = "updateBidStatus" ->
            UNION {SubObjects([bidId |-> b, status |-> st]) :
                     b \in BidIds, st \in {"", "CLOSED"}}
      [] o = "forceCompleteBid" ->
            UNION {SubObjects([bidId |-> b, buyerNic |-> n, amount |-> a]) :
                     b \in BidIds, n \in Nics, a \in Amounts}
      [] o = "getBidStatistics" -> {Empty}

Operations ==
    {"createBid", "getAllBids", "getFilteredBids", "getFarmerBids",
     "getBuyerWinningBids", "getBidDetails", "placeBid", "acceptBidOffer",
     "cancelBid", "updateBidStatus", "forceCompleteBid", "getBidStatistics"}

Offers == {[buyerNic |-> b, bidAmount |-> 120] : b \in {"B1", "B2"}}

OfferLists == UNION {[1..n -> Offers] : n \in 0..MaxOffers}

Bids ==
    { Spread(Spread([id |-> "7"], w), f) :
        w \in { Empty,
                [winningBuyerNic |-> "", winningBidAmount |-> 0],
                [winningBuyerNic |-> "B9", winningBidAmount |-> 500,
                 postedDate |-> [form |-> "date", day |-> 20090, minute |-> 0]] },
        f \in {Empty} \cup {[bidOffers |-> l] : l \in OfferLists} }

\* lists of records for getAllBids (the empty list and the lists of which
\* one record is any of Bids, the others the first offer-less record), a
\* record otherwise
ResponseData(o) ==
    IF o = "getAllBids"
    THEN {<<>>}
         \cup UNION { { [i \in 1..n |-> IF i = k THEN b ELSE [id |-> "7"]] :
                          b \in Bids, k \in 1..n } : n \in 1..MaxBids }
    ELSE {[id |-> "7"]}

HttpStatuses == {400, 401, 403, 404, 409, 422, 500, 503}

\* the message axios gives an error whose response has the status
StatusMessage(status) ==
    CASE status = 400 -> "Request failed with status code 400"
      [] status = 401 -> "Request failed with status code 401"
      [] status = 403 -> "Request failed with status code 403"
      [] status = 404 -> "Request failed with status code 404"
      [] status = 409 -> "Request failed with status code 409"
      [] status = 422 -> "Request failed with status code 422"
      [] status = 500 -> "Request failed with status code 500"
      [] status = 503 -> "Request failed with status code 503"

HttpErrors ==
    { [code |-> IF st >= 500 THEN "ERR_BAD_RESPONSE" ELSE "ERR_BAD_REQUEST",
       message |-> StatusMessage(st),
       response |-> [status |-> st, data |-> d]] :
        st \in HttpStatuses,
        d \in {Empty, [message |-> ""], [message |-> "Bid is already closed"]} }

TransportErrors ==
    { [code |-> "ERR_NETWORK", message |-> "Network Error"],
      [code |-> "ECONNABORTED", message |-> "timeout of 10000ms exceeded"] }

\* the ways the HTTP call for request req can fail
Failures(req) ==
    HttpErrors \cup TransportErrors
    \cup (IF Has(req, "signal")
          THEN {[code |-> "ERR_CANCELED", message |-> "canceled"]} ELSE {})

-----------------------------------------------------------------------------
(* BidService: what each operation does up to its HTTP call *)

BaseURL == "/bids"

\* the synchronous part of an operation ends in a throw inside its try
\* block or in the HTTP request it awaits
Throws(a, error) == [kind |-> "throw", error |-> error, args |-> a]
Requests(a, request) == [kind |-> "request", request |-> request, args |-> a]

\* what toISOString throws on an Invalid Date
RangeError == [name |-> "RangeError", message |-> "Invalid time value"]

createBidPlan(a) ==
    LET bidCreateRequest == a.bidCreateRequest
        harvestDate == SetHoursNoon(NewDate(bidCreateRequest, "harvestDate"))
    IN  IF ~TruthyStr(bidCreateRequest, "farmerNic")
        THEN Throws(a, NewError("Farmer NIC is required"))
        ELSE IF ~harvestDate.valid
        THEN Throws(a, RangeError)
        ELSE Requests(a,
                [method |-> "POST", url |-> BaseURL,
                 body |-> Spread(bidCreateRequest,
                                 [harvestDate |-> ToISOString(harvestDate),
                                  status |-> "ACTIVE"])])

getAllBidsPlan(a) ==
    LET filters == Without(a, "signal")
        byStatus == IF TruthyStr(filters, "status") /\ filters.status # "all"
                    THEN [status |-> filters.status] ELSE Empty
        hasRange == Has(filters, "dateRange") /\ Len(filters.dateRange) > 0
        fromDate == IF hasRange
                    THEN SetDateBack([valid |-> TRUE, t |-> now],
                                     ParseInt(filters.dateRange))
                    ELSE InvalidDate
        byDate == IF hasRange THEN [fromDate |-> ToISOString(fromDate)] ELSE Empty
        bySearch == IF TruthyStr(filters, "searchTerm")
                    THEN [searchTerm |-> filters.searchTerm] ELSE Empty
        params == Spread(Spread(byStatus, byDate), bySearch)
        config == IF Has(a, "signal") THEN [signal |-> a.signal] ELSE Empty
    IN  IF hasRange /\ ~fromDate.valid
        THEN Throws(a, RangeError)
        ELSE Requests(a, Spread([method |-> "GET", url |-> BaseURL \o "/admin/all",
                                 params |-> params], config))

getFilteredBidsPlan(a) ==
    LET keep == {k \in DOMAIN a : a[k] # "" /\ a[k] # "ALL"}
    IN  Requests(a, [method |-> "GET", url |-> BaseURL \o "/active",
                     params |-> [k \in keep |-> a[k]]])

getFarmerBidsPlan(a) ==
    IF ~TruthyStr(a, "farmerNic")
    THEN Throws(a, NewError("Farmer NIC is required"))
    ELSE Requests(a, [method |-> "GET", url |-> BaseURL \o "/farmer/" \o a.farmerNic])

getBuyerWinningBidsPlan(a) ==
    IF ~TruthyStr(a, "buyerNic")
    THEN Throws(a, NewError("Buyer NIC is required"))
    ELSE Requests(a, [method |-> "GET",
                      url |-> BaseURL \o "/buyer/" \o a.buyerNic \o "/winning"])

getBidDetailsPlan(a) ==
    IF ~TruthyStr(a, "bidId")
    THEN Throws(a, NewError("Bid ID is required"))
    ELSE Requests(a, [method |-> "GET", url |-> BaseURL \o "/" \o a.bidId])

\* a placeBid that does not check the bid amount
placeBidPlanNoAmountCheck(a) ==
    IF ~TruthyStr(a, "bidId") \/ ~TruthyStr(a, "buyerNic")
    THEN Throws(a, NewError("Bid ID, Buyer NIC, and bid amount are required"))
    ELSE Requests(a, [method |-> "POST", url |-> BaseURL \o "/offer", body |-> a])

placeBidPlan(a) ==
    IF ~TruthyStr(a, "bidId") \/ ~TruthyStr(a, "buyerNic") \/ ~TruthyNum(a, "bidAmount")
    THEN Throws(a, NewError("Bid ID, Buyer NIC, and bid amount are required"))
    ELSE Requests(a, [method |-> "POST", url |-> BaseURL \o "/offer", body |-> a])

acceptBidOfferPlan(a) ==
    IF ~TruthyStr(a, "bidId") \/ ~TruthyStr(a, "buyerNic")
    THEN Throws(a, NewError("Bid ID and Buyer NIC are required"))
    ELSE Requests(a, [method |-> "POST",
                      url |-> BaseURL \o "/" \o a.bidId \o "/accept-offer",
                      params |-> [buyerNic |-> a.buyerNic]])

cancelBidPlan(a) ==
    IF ~TruthyStr(a, "bidId")
    THEN Throws(a, NewError("Bid ID is required"))
    ELSE Requests(a, [method |-> "POST", url |-> BaseURL \o "/" \o a.bidId \o "/cancel"])

updateBidStatusPlan(a) ==
    IF ~TruthyStr(a, "bidId") \/ ~TruthyStr(a, "status")
    THEN Throws(a, NewError("Bid ID and status are required"))
    ELSE Requests(a, [method |-> "PUT",
                      url |-> BaseURL \o "/admin/" \o a.bidId \o "/status",
                      params |-> [status |-> a.status]])

forceCompleteBidPlan(a) ==
    IF ~TruthyStr(a, "bidId") \/ ~TruthyStr(a, "buyerNic") \/ ~TruthyNum(a, "amount")
    THEN Throws(a, NewError("Bid ID, Buyer NIC, and amount are required"))
    ELSE Requests(a, [method |-> "PUT",
                      url |-> BaseURL \o "/admin/" \o a.bidId \o "/force-complete",
                      params |-> [buyerNic |-> a.buyerNic, amount |-> a.amount]])

getBidStatisticsPlan(a) ==
    Requests(a, [method |-> "GET", url |-> BaseURL \o "/admin/statistics"])

\* offer => offer.buyerNic (join renders undefined as the empty string)
OfferBuyerNic(offer) == IF Has(offer, "buyerNic") THEN offer.buyerNic ELSE ""

\* a derivation that prefers the offers to the winning buyer
DisplayBuyerOffersFirst(bid) ==
    IF Has(bid, "bidOffers") /\ Len(bid.bidOffers) > 0
    THEN Join(Map(bid.bidOffers, OfferBuyerNic), ", ")
    ELSE IF TruthyStr(bid, "winningBuyerNic") THEN bid.winningBuyerNic
    ELSE "-"

\* the buyerNic that getAllBids derives for a record
DisplayBuyer(bid) ==
    IF TruthyStr(bid, "winningBuyerNic") THEN bid.winningBuyerNic
    ELSE IF Has(bid, "bidOffers") /\ Len(bid.bidOffers) > 0
    THEN Join(Map(bid.bidOffers, OfferBuyerNic), ", ")
    ELSE "-"

\* the record getAllBids returns for a record of the response
ReshapeBid(bid) ==
    Spread(bid,
        [bidOffers |-> IF Has(bid, "bidOffers") THEN bid.bidOffers ELSE <<>>,
         buyerNic |-> DisplayBuyer(bid),
         winningBidPrice |-> IF TruthyNum(bid, "winningBidAmount")
                             THEN [value |-> bid.winningBidAmount]
                             ELSE [null |-> TRUE],
         createdAt |-> IF Has(bid, "postedDate")
                       THEN ToLocaleDateString(NewDate(bid, "postedDate"))
                       ELSE [text |-> "Invalid Date"]])

\* what operation o returns for the response's data
Then(o, data) == IF o = "getAllBids" THEN Map(data, ReshapeBid) ELSE data

-----------------------------------------------------------------------------
(* Actions *)

Init ==
    /\ tz \in TimeZones
    /\ now \in Clock
    /\ others = 0
    /\ pc = "idle"
    /\ op = "none"
    /\ args = Empty
    /\ inflight = <<>>
    /\ sent = 0
    /\ response = <<>>
    /\ failure = <<>>
    /\ result = <<>>
    /\ thrown = <<>>
    /\ console = <<>>
    /\ currentPage = 0
    /\ pageArg = <<>>

\* a caller invokes operation o with arguments a; the invocation that was
\* followed before has completed (others may still be in flight)
Invoke(o, a) ==
    /\ pc \in {"idle", "returned", "thrown"}
    /\ pc' = "called"
    /\ op' = o
    /\ args' = a
    /\ inflight' = <<>>
    /\ sent' = 0
    /\ response' = <<>>
    /\ failure' = <<>>
    /\ result' = <<>>
    /\ thrown' = <<>>
    /\ console' = <<>>
    /\ UNCHANGED <<tz, now, others, currentPage, pageArg>>

\* another invocation is made, at any moment, and awaits its HTTP response
InvokeOther ==
    /\ others < MaxOthers
    /\ others' = others + 1
    /\ UNCHANGED <<tz, now, pc, op, args, inflight, sent, response, failure, result,
                   thrown, console, currentPage, pageArg>>

\* another invocation's HTTP call ends and the invocation completes
OtherCompletes ==
    /\ others > 0
    /\ others' = others - 1
    /\ UNCHANGED <<tz, now, pc, op, args, inflight, sent, response, failure, result,
                   thrown, console, currentPage, pageArg>>

\* a view calls the public method handleError directly
handleError ==
    /\ pc \in {"idle", "returned", "thrown"}
    /\ \E error \in Failures([signal |-> "signal"]) :
          result' = <<HandleError(error)>>
    /\ pc' = "returned"
    /\ op' = "handleError"
    /\ args' = Empty
    /\ inflight' = <<>>
    /\ sent' = 0
    /\ response' = <<>>
    /\ failure' = <<>>
    /\ thrown' = <<>>
    /\ console' = <<"API Error:">>
    /\ UNCHANGED <<tz, now, others, currentPage, pageArg>>

\* the operation runs to its throw or to its awaited HTTP call
Perform(plan) ==
    /\ IF plan.kind = "throw"
       THEN /\ pc' = "thrown"
            /\ thrown' = Append(thrown, Catch(op, plan.error))
            /\ console' = console \o CatchLog(op, plan.error)
            /\ args' = Empty
            /\ UNCHANGED <<inflight, sent>>
       ELSE /\ pc' = "pending"
            /\ inflight' = Append(inflight, plan.request)
            /\ sent' = sent + 1
            /\ args' = plan.args
            /\ UNCHANGED <<thrown, console>>
    /\ UNCHANGED <<tz, now, others, op, response, failure, result, currentPage,
                   pageArg>>

Called(o) == pc = "called" /\ op = o

createBid == Called("createBid") /\ Perform(createBidPlan(args))
getAllBids == Called("getAllBids") /\ Perform(getAllBidsPlan(args))
getFilteredBids == Called("getFilteredBids") /\ Perform(getFilteredBidsPlan(args))
getFarmerBids == Called("getFarmerBids") /\ Perform(getFarmerBidsPlan(args))
getBuyerWinningBids ==
    Called("getBuyerWinningBids") /\ Perform(getBuyerWinningBidsPlan(args))
getBidDetails == Called("getBidDetails") /\ Perform(getBidDetailsPlan(args))
placeBid == Called("placeBid") /\ Perform(placeBidPlan(args))
acceptBidOffer == Called("acceptBidOffer") /\ Perform(acceptBidOfferPlan(args))
cancelBid == Called("cancelBid") /\ Perform(cancelBidPlan(args))
updateBidStatus == Called("updateBidStatus") /\ Perform(updateBidStatusPlan(args))
forceCompleteBid == Called("forceCompleteBid") /\ Perform(forceCompleteBidPlan(args))
getBidStatistics == Called("getBidStatistics") /\ Perform(getBidStatisticsPlan(args))

\* the HTTP call succeeds: the interceptor's fulfilled handler passes the
\* response on
OnFulfilled ==
    /\ pc = "pending"
    /\ \E data \in ResponseData(op) : response' = <<data>>
    /\ pc' = "fulfilled"
    /\ inflight' = <<>>
    /\ UNCHANGED <<tz, now, others, op, args, sent, failure, result, thrown, console,
                   currentPage, pageArg>>

\* the operation resumes after its await and returns
Return ==
    /\ pc = "fulfilled"
    /\ result' = <<Then(op, response[1])>>
    /\ pc' = "returned"
    /\ response' = <<>>
    /\ args' = Empty
    /\ UNCHANGED <<tz, now, others, op, inflight, sent, failure, thrown, console,
                   currentPage, pageArg>>

\* the HTTP call fails: the interceptor's rejected handler logs its line and
\* rejects with the same error
Reject ==
    /\ pc = "pending"
    /\ \E error \in Failures(inflight[1]) :
          /\ failure' = <<OnRejected(error)>>
          /\ console' = console \o InterceptorLog(error)
    /\ pc' = "rejected"
    /\ inflight' = <<>>
    /\ UNCHANGED <<tz, now, others, op, args, sent, response, result, thrown,
                   currentPage, pageArg>>

\* a catch block that issues the request again instead of throwing
CatchRetry ==
    /\ pc = "rejected"
    /\ pc' = "pending"
    /\ inflight' = <<[method |-> "GET", url |-> "/bids"]>>
    /\ sent' = sent + 1
    /\ UNCHANGED <<tz, now, others, op, args, response, failure, result, thrown,
                   console, currentPage, pageArg>>

\* the operation resumes after its await in its catch block, which throws
\* the normalized error
CatchRejected ==
    /\ pc = "rejected"
    /\ thrown' = Append(thrown, Catch(op, failure[1]))
    /\ console' = console \o CatchLog(op, failure[1])
    /\ pc' = "thrown"
    /\ args' = Empty
    /\ UNCHANGED <<tz, now, others, op, inflight, sent, response, failure, result,
                   currentPage, pageArg>>

\* time passes
Tick ==
    /\ \E t \in Clock : t > now /\ now' = t
    /\ UNCHANGED <<tz, others, pc, op, args, inflight, sent, response, failure,
                   result, thrown, console, currentPage, pageArg>>

\* a Previous button that is never disabled
PreviousAlwaysEnabled == FALSE

\* disabled={currentPage === 0}
PreviousDisabled == currentPage = 0

\* the parent's onPageChange: the page it is called with becomes current
OnPageChange(page) ==
    /\ pageArg' = <<page>>
    /\ currentPage' = page

\* a click on Previous: onPageChange(currentPage - 1)
ClickPrevious ==
    /\ ~PreviousDisabled
    /\ OnPageChange(currentPage - 1)
    /\ UNCHANGED <<tz, now, others, pc, op, args, inflight, sent, response, failure,
                   result, thrown, console>>

\* a click on Next: onPageChange(currentPage + 1)
ClickNext ==
    /\ currentPage < MaxPage
    /\ OnPageChange(currentPage + 1)
    /\ UNCHANGED <<tz, now, others, pc, op, args, inflight, sent, response, failure,
                   result, thrown, console>>

Next ==
    \/ \E o \in Operations : \E a \in ArgsOf(o) : Invoke(o, a)
    \/ InvokeOther
    \/ OtherCompletes
    \/ handleError
    \/ createBid
    \/ getAllBids
    \/ getFilteredBids
    \/ getFarmerBids
    \/ getBuyerWinningBids
    \/ getBidDetails
    \/ placeBid
    \/ acceptBidOffer
    \/ cancelBid
    \/ updateBidStatus
    \/ forceCompleteBid
    \/ getBidStatistics
    \/ OnFulfilled
    \/ Return
    \/ Reject
    \/ CatchRejected
    \/ Tick

\* the access layer, called by any of the application's views
Spec == Init /\ [][Next]_vars

PageNext ==
    \/ ClickPrevious
    \/ ClickNext

\* the allocation list and the parent that owns its page
PageSpec == Init /\ [][PageNext]_vars

-----------------------------------------------------------------------------
(* Properties *)

\* the step in which the invoked operation runs its synchronous part
Runs(o) == pc = "called" /\ op = o /\ pc' # "called"

\* the request the invocation has in flight after the step
RequestSent == inflight'[1]

\* the operation's HTTP call failed and the invocation signalled its error
Failed == pc = "thrown" /\ Len(failure) = 1 /\ Len(thrown) = 1

\* the required arguments of each operation
Required(o) ==
    CASE o \in {"createBid", "getFarmerBids"} -> {"farmerNic"}
      [] o = "getBuyerWinningBids" -> {"buyerNic"}
      [] o \in {"getBidDetails", "cancelBid"} -> {"bidId"}
      [] o = "placeBid" -> {"bidId", "buyerNic", "bidAmount"}
      [] o = "acceptBidOffer" -> {"bidId", "buyerNic"}
      [] o = "updateBidStatus" -> {"bidId", "status"}
      [] o = "forceCompleteBid" -> {"bidId", "buyerNic", "amount"}
      [] OTHER -> {}

\* the object that carries the operation's required arguments
Given(o, a) == IF o = "createBid" THEN a.bidCreateRequest ELSE a

ValidationMessages ==
    {"Farmer NIC is required", "Buyer NIC is required", "Bid ID is required",
     "Bid ID, Buyer NIC, and bid amount are required",
     "Bid ID and Buyer NIC are required", "Bid ID and status are required",
     "Bid ID, Buyer NIC, and amount are required"}

\* C1: an operation called without one of its required arguments fails with
\* a validation error, and no HTTP request is issued for the call.
C1_MissingArgumentFailsBeforeRequest ==
    [][\A o \in Operations :
         (Runs(o) /\ \E k \in Required(o) : ~Has(Given(o, args), k))
         => /\ pc' = "thrown"
            /\ Len(thrown') = 1
            /\ thrown'[1].message \in ValidationMessages
            /\ sent' = 0
            /\ inflight' = <<>>
            /\ failure' = <<>>]_vars

C1_Witness ==
    /\ pc = "thrown"
    /\ op = "forceCompleteBid"
    /\ sent = 0
    /\ failure = <<>>
    /\ Len(thrown) = 1
    /\ thrown[1].message = "Bid ID, Buyer NIC, and amount are required"

\* the query parameter that each filter of getAllBids turns into
ParamOf(k) == IF k = "dateRange" THEN "fromDate" ELSE k

\* the filter is the sentinel "all" or empty
SentinelOrEmpty(a, k) ==
    /\ Has(a, k)
    /\ IF k = "dateRange" THEN a[k] \in {<<>>, <<"a", "l", "l">>}
       ELSE a[k] \in {"", "all"}

\* C2: whatever the filters of getAllBids, the call issues its request, and
\* the query has no parameter for any filter that is "all" or empty.
C2_SentinelFiltersOmitted ==
    [][Runs("getAllBids")
       => /\ pc' = "pending"
          /\ \A k \in {"status", "dateRange", "searchTerm"} :
                SentinelOrEmpty(args, k) => ~Has(RequestSent.params, ParamOf(k))]_vars

RECURSIVE JoinedUpTo(_, _)
\* the buyers of the first n offers, each followed by ", " but the last
JoinedUpTo(offers, n) ==
    IF n = 1 THEN OfferBuyerNic(offers[1])
    ELSE JoinedUpTo(offers, n - 1) \o ", " \o OfferBuyerNic(offers[n])

\* C3: each record getAllBids returns has an offers list, and its buyerNic
\* is the winning buyer if there is one, else the offers' buyers joined with
\* ", " in the order received, else "-".
C3_DisplayBuyer ==
    (pc = "returned" /\ op = "getAllBids")
    => \A i \in 1..Len(result[1]) :
          LET bid == result[1][i]
          IN  /\ Has(bid, "bidOffers")
              /\ Has(bid, "buyerNic")
              /\ IF TruthyStr(bid, "winningBuyerNic")
                 THEN bid.buyerNic = bid.winningBuyerNic
                 ELSE IF Len(bid.bidOffers) > 0
                 THEN bid.buyerNic = JoinedUpTo(bid.bidOffers, Len(bid.bidOffers))
                 ELSE bid.buyerNic = "-"

C3_Witness ==
    /\ pc = "returned"
    /\ op = "getAllBids"
    /\ Len(result[1]) = 1
    /\ ~Has(result[1][1], "winningBuyerNic")
    /\ Len(result[1][1].bidOffers) = 2
    /\ result[1][1].buyerNic = "B2, B1"

AcceptMessage == "Server error while processing the offer. Please try again."

\* C4 as stated: whenever an operation's HTTP call fails with a backend
\* message, the error signalled carries exactly that message.
C4_BackendMessageAlways ==
    (Failed /\ DataMessageOf(failure[1]) # "")
    => thrown[1].message = DataMessageOf(failure[1])

\* C4 as amended: whenever an operation's HTTP call fails with a backend
\* message, the error signalled carries exactly that message, unless the
\* operation is acceptBidOffer and the status is 500: then it carries the
\* message of acceptBidOffer's own status-500 branch.
C4_BackendMessageUnlessAccept500 ==
    (Failed /\ DataMessageOf(failure[1]) # "")
    => IF op = "acceptBidOffer" /\ StatusOf(failure[1]) = 500
       THEN thrown[1].message = AcceptMessage
       ELSE thrown[1].message = DataMessageOf(failure[1])

C4_Witness ==
    /\ Failed
    /\ op = "cancelBid"
    /\ StatusOf(failure[1]) = 409
    /\ DataMessageOf(failure[1]) = "Bid is already closed"
    /\ thrown[1].message = "Bid is already closed"

\* C5: acceptBidOffer whose HTTP call fails with status 500 signals its own
\* message and not the generic 5xx one; its every other failure signals
\* what handleError makes of it.
C5_AcceptOffer500 ==
    (pc = "thrown" /\ op = "acceptBidOffer")
    => /\ Len(thrown) = 1
       /\ IF Len(failure) = 0
          THEN thrown[1].message = "Bid ID and Buyer NIC are required"
          ELSE IF StatusOf(failure[1]) = 500
          THEN /\ thrown[1].message = AcceptMessage
               /\ thrown[1].message # "Server error. Please try again later."
          ELSE thrown[1] = HandleError(failure[1])

C5_Witness ==
    /\ Failed
    /\ op = "acceptBidOffer"
    /\ StatusOf(failure[1]) = 500
    /\ thrown[1].message = AcceptMessage

ConnectivityMessage == HandleError([code |-> "ERR_NETWORK"]).message
NotFoundMessage == HandleError([response |-> [status |-> 404]]).message
ConflictMessage == HandleError([response |-> [status |-> 409]]).message
FallbackMessage == HandleError(Empty).message

MessagesDiffer ==
    /\ ConnectivityMessage = "Cannot connect to server. Please check your connection."
    /\ NotFoundMessage = "The requested resource was not found."
    /\ ConflictMessage = "This operation conflicts with an existing resource."
    /\ FallbackMessage = "An unexpected error occurred."
    /\ Cardinality({ConnectivityMessage, NotFoundMessage, ConflictMessage,
                    FallbackMessage}) = 4

\* C6 as stated: the normalized message is the connectivity message for
\* ERR_NETWORK, the not-found message for 404, the conflict message for
\* 409, and the three differ from each other and from the fallback.
C6_MessageByKind ==
    /\ MessagesDiffer
    /\ Failed
       => /\ CodeOf(failure[1]) = "ERR_NETWORK"
                => HandleError(failure[1]).message = ConnectivityMessage
          /\ StatusOf(failure[1]) = 404
                => HandleError(failure[1]).message = NotFoundMessage
          /\ StatusOf(failure[1]) = 409
                => HandleError(failure[1]).message = ConflictMessage

\* C6 as amended: for a failure that carries no backend message, the
\* normalized message is the connectivity message for ERR_NETWORK, the
\* not-found message for 404, the conflict message for 409; the three
\* differ from each other and from the fallback.
C6_MessageByKindWithoutBackendMessage ==
    /\ MessagesDiffer
    /\ (Failed /\ DataMessageOf(failure[1]) = "")
       => /\ CodeOf(failure[1]) = "ERR_NETWORK"
                => /\ HandleError(failure[1]).message = ConnectivityMessage
                   /\ thrown[1].message = ConnectivityMessage
          /\ StatusOf(failure[1]) = 404
                => /\ HandleError(failure[1]).message = NotFoundMessage
                   /\ thrown[1].message = NotFoundMessage
          /\ StatusOf(failure[1]) = 409
                => /\ HandleError(failure[1]).message = ConflictMessage
                   /\ thrown[1].message = ConflictMessage

C6_Witness ==
    /\ Failed
    /\ op = "getBidDetails"
    /\ StatusOf(failure[1]) = 409
    /\ DataMessageOf(failure[1]) = ""
    /\ thrown[1].message = "This operation conflicts with an existing resource."

DigitChar(n) ==
    CASE n = 0 -> "0" [] n = 1 -> "1" [] n = 2 -> "2" [] n = 3 -> "3"
      [] n = 4 -> "4" [] n = 5 -> "5" [] n = 6 -> "6" [] n = 7 -> "7"
      [] n = 8 -> "8" [] n = 9 -> "9"

RECURSIVE Decimal(_)
\* the decimal digits of a positive number
Decimal(n) ==
    IF n < 10 THEN <<DigitChar(n)>>
    ELSE Append(Decimal(n \div 10), DigitChar(n % 10))

\* the instant that an ISO string denotes
InstantOf(iso) == iso.day * MinutesPerDay + iso.minute

\* getAllBids is called with a status other than "all", a dateRange of d
\* days and no search term
StatusAndDays(d) ==
    /\ Runs("getAllBids")
    /\ TruthyStr(args, "status") /\ args.status # "all"
    /\ Has(args, "dateRange") /\ args.dateRange = Decimal(d)
    /\ ~TruthyStr(args, "searchTerm")

\* the call issues one GET to /bids/admin/all whose query is exactly status
\* (as given) and fromDate
StatusAndFromDateQuery ==
    /\ pc' = "pending"
    /\ sent' = 1
    /\ Len(inflight') = 1
    /\ RequestSent.method = "GET"
    /\ RequestSent.url = "/bids/admin/all"
    /\ DOMAIN RequestSent.params = {"status", "fromDate"}
    /\ RequestSent.params.status = args.status

\* C7 as stated: getAllBids with a status other than "all", a dateRange of
\* d days (d positive) and no search term issues one GET to /bids/admin/all
\* whose query is exactly status (as given) and fromDate (the time of the
\* call minus d days).
C7_StatusAndDateRangeQuery ==
    [][\A d \in 1..31 :
         StatusAndDays(d)
         => /\ StatusAndFromDateQuery
            /\ InstantOf(RequestSent.params.fromDate) = now - d * MinutesPerDay]_vars

\* the local time that the start of daylight time skips
Skipped(local) ==
    /\ OffsetAt(local - tz.standard) # tz.standard
    /\ OffsetAt(local - tz.daylight) # tz.daylight

\* the instant is in the hour that the end of daylight time repeats, the
\* second time
RepeatedLater(t) ==
    /\ tz.daylight # tz.standard
    /\ OffsetAt(t) = tz.standard
    /\ OffsetAt(t + tz.standard - tz.daylight) = tz.daylight

\* C7 as amended: the same request, whose fromDate has the local time of day
\* of the call on the local date d days earlier (the first instant with that
\* local time; if the start of daylight time skips it, the local time later
\* by the change of offset).  It is the time of the call minus d days of 24
\* hours when the zone's UTC offset then is the offset at the call and that
\* instant is not in a repeated hour for the second time; it differs from
\* it by the zone's change of offset at most.
C7_StatusAndLocalDateRangeQuery ==
    [][\A d \in 1..31 :
         StatusAndDays(d)
         => LET exact == now - d * MinutesPerDay
                local == now + OffsetAt(now) - d * MinutesPerDay
                change == tz.daylight - tz.standard
                fromDate == InstantOf(RequestSent.params.fromDate)
            IN  /\ StatusAndFromDateQuery
                /\ fromDate + OffsetAt(fromDate)
                     = IF Skipped(local) THEN local + change ELSE local
                /\ ~RepeatedLater(fromDate)
                /\ fromDate - exact \in {0, change, 0 - change}
                /\ (OffsetAt(exact) = OffsetAt(now) /\ ~RepeatedLater(exact))
                      => fromDate = exact]_vars

C7_Witness ==
    /\ pc = "pending"
    /\ op = "getAllBids"
    /\ Has(args, "status") /\ args.status = "ACTIVE"
    /\ Has(args, "dateRange") /\ args.dateRange = <<"7">>
    /\ ~Has(args, "searchTerm")
    /\ DOMAIN inflight[1].params = {"status", "fromDate"}
    /\ inflight[1].params.status = "ACTIVE"
    /\ tz.name = "Pacific/Auckland"
    /\ InstantOf(inflight[1].params.fromDate) = now - 7 * MinutesPerDay + 60

\* C8: for every createBid request that carries a farmer identifier, a body
\* is sent: it has status "ACTIVE" whatever the request's status, has for
\* harvest date 12:00 (local time) of the request's harvest day, and has
\* every other property of the request as it is; the request is left as it
\* was.
C8_CreateBidBody ==
    [][(Runs("createBid") /\ TruthyStr(args.bidCreateRequest, "farmerNic"))
       => LET request == args.bidCreateRequest
              body == RequestSent.body
              local == InstantOf(body.harvestDate)
                           + OffsetAt(InstantOf(body.harvestDate))
          IN  /\ pc' = "pending"
              /\ sent' = 1
              /\ RequestSent.method = "POST"
              /\ DOMAIN body = DOMAIN request \cup {"harvestDate", "status"}
              /\ body.status = "ACTIVE"
              /\ Has(request, "harvestDate")
              /\ local = request.harvestDate.day * MinutesPerDay + NoonHour * 60
              /\ \A k \in DOMAIN request \ {"harvestDate", "status"} :
                    body[k] = request[k]
              /\ args' = args]_vars

\* C9: an invocation issues at most one HTTP request; once the request has
\* failed, none is in flight and none is issued again, the invocation goes
\* on only by signalling exactly one error, and it returns no value; a
\* value is returned only after a request that did not fail.
C9_OneRequestOneError ==
    /\ [](/\ sent <= 1
          /\ Len(inflight) <= sent
          /\ Len(thrown) <= 1
          /\ Len(failure) = 1
                => /\ pc \in {"rejected", "thrown"}
                   /\ sent = 1
                   /\ inflight = <<>>
                   /\ response = <<>>
                   /\ result = <<>>
                   /\ Len(thrown) = IF pc = "thrown" THEN 1 ELSE 0
          /\ pc \in {"fulfilled", "returned"} => failure = <<>> /\ thrown = <<>>
          /\ pc = "returned" => Len(result) = 1
          /\ pc = "thrown" => Len(thrown) = 1 /\ result = <<>>)
    /\ [][pc = "rejected"
          => /\ pc' \in {"rejected", "thrown"}
             /\ sent' = sent
             /\ inflight' = <<>>
             /\ failure' = failure]_vars

C9_Witness ==
    /\ Failed
    /\ op = "getAllBids"
    /\ sent = 1
    /\ inflight = <<>>
    /\ result = <<>>

\* C10: started at page 0, with the parent making current the page that
\* onPageChange is called with, the current page and the page passed to
\* onPageChange are never negative.
C10_PageNeverNegative ==
    /\ currentPage >= 0
    /\ \A i \in 1..Len(pageArg) : pageArg[i] >= 0 /\ currentPage = pageArg[i]

C10_Witness ==
    /\ currentPage = 0
    /\ pageArg = <<0>>

====
